---- MODULE Spec2Model ----
(***************************************************************************)
(* Model of the market-data facade in src/main.py: the symbol router       *)
(* (is_indian_stock, get_clean_symbol), the startup/shutdown hooks that    *)
(* own the vendor session handle td_app, and the quote, history,           *)
(* fundamentals and news handlers.                                         *)
(*                                                                         *)
(* A Python str is a sequence of one-character strings, a dict is a        *)
(* function (a record) whose DOMAIN is its key set, None is the string     *)
(* "None".  Values drawn by random.* and datetime.now() are environment    *)
(* choices; the vendor (TrueData session, REST endpoints) is the           *)
(* environment.                                                            *)
(***************************************************************************)
EXTENDS Integers, Sequences, FiniteSets, TLC

VARIABLES
    rSymbol, rDecision, rClean, rDone,   \* one evaluation of the router
    TD_USER,        \* os.getenv("TD_USER"): "None", "" or a user name
    td_app,         \* the global session handle: "None" or "TD"
    session,        \* vendor side of the handle: "none", "open", "closed"
    startupDone,    \* the startup hook has run
    shutdownDone,   \* the shutdown hook has run
    live_data,      \* td_app.live_data: req_id -> tick (a dict of attributes)
    workers,        \* in-flight get_quote calls (position, symbol, req_id)
    op,             \* the operation that ran last, with its inputs
    upstream,       \* what the vendor answered to that operation
    calls,          \* the vendor calls that operation made
    resp            \* what that operation returned to its caller

routerVars == <<rSymbol, rDecision, rClean, rDone>>
serverVars == <<TD_USER, td_app, session, startupDone, shutdownDone,
                live_data, workers, op, upstream, calls, resp>>
vars == <<rSymbol, rDecision, rClean, rDone,
          TD_USER, td_app, session, startupDone, shutdownDone,
          live_data, workers, op, upstream, calls, resp>>

----------------------------------------------------------------------------
(* Bounds *)

MaxLen == 4         \* longest symbol drawn from Alphabet for the router

Alphabet == {".", "N", "S", "B", "O", "A"}

RECURSIVE SeqsUpTo(_, _)
SeqsUpTo(S, n) ==
    IF n = 0 THEN {<<>>}
    ELSE LET shorter == SeqsUpTo(S, n - 1)
         IN  shorter \cup {Append(s, c) : s \in {t \in shorter : Len(t) = n - 1}, c \in S}

----------------------------------------------------------------------------
(* Router: src/main.py lines 28-33 and 62-68 *)

NS == <<".", "N", "S">>
BO == <<".", "B", "O">>

INDEX_MAP ==
    (<<"^", "N", "S", "E", "I">> :> <<"N", "I", "F", "T", "Y", " ", "5", "0">>)
 @@ (<<"^", "B", "S", "E", "S", "N">> :> <<"S", "E", "N", "S", "E", "X">>)
 @@ (<<"N", "I", "F", "T", "Y", "_", "5", "0">> :> <<"N", "I", "F", "T", "Y", " ", "5", "0">>)
 @@ (<<"N", "I", "F", "T", "Y", "_", "B", "A", "N", "K">> :> <<"B", "A", "N", "K", "N", "I", "F", "T", "Y">>)

\* str.endswith(suffix)
endswith(s, suffix) ==
    /\ Len(s) >= Len(suffix)
    /\ SubSeq(s, Len(s) - Len(suffix) + 1, Len(s)) = suffix

\* str.replace(old, ""): every non-overlapping occurrence, scanning left to right
RECURSIVE replace(_, _)
replace(s, old) ==
    IF Len(s) < Len(old) THEN s
    ELSE IF SubSeq(s, 1, Len(old)) = old
         THEN replace(SubSeq(s, Len(old) + 1, Len(s)), old)
         ELSE <<Head(s)>> \o replace(Tail(s), old)

\* dict.get(key, default)
dict_get(d, key, default) == IF key \in DOMAIN d THEN d[key] ELSE default

get_clean_symbol(symbol) ==
    dict_get(INDEX_MAP, symbol, replace(replace(symbol, NS), BO))

\* is_indian_stock without the .BO test
is_indian_stock_no_bo(symbol) ==
    endswith(symbol, NS) \/ symbol \in DOMAIN INDEX_MAP

is_indian_stock(symbol) ==
    endswith(symbol, NS) \/ endswith(symbol, BO) \/ symbol \in DOMAIN INDEX_MAP

\* RoutingDecision of the external symbol
Decision(symbol) == IF is_indian_stock(symbol) THEN "VENDOR" ELSE "MOCK"

RouterSymbols == SeqsUpTo(Alphabet, MaxLen) \cup DOMAIN INDEX_MAP

----------------------------------------------------------------------------
(* Python values *)

EmptyDict == [k \in {} |-> 0]

\* truth value of an Optional[str] / Optional[object]
Truthy(x) == x \notin {"None", ""}

\* getattr without its default: a missing attribute reads as None (-1)
getattr_no_default(obj, name, default) == IF name \in DOMAIN obj THEN obj[name] ELSE 0 - 1

\* getattr(obj, name, default) on an object whose attributes are DOMAIN obj
getattr(obj, name, default) == IF name \in DOMAIN obj THEN obj[name] ELSE default

----------------------------------------------------------------------------
(* Environment: bounded inputs *)

NumWorkers == 2     \* request threads that can be inside get_quote at once
MaxReq == 1         \* subscription identifiers the vendor hands out
MaxRows == 2        \* rows in a history payload
MaxFundKeys == 1    \* company-info payloads have at most this many keys present, or missing

Workers == 1..NumWorkers
ReqIds == 1..MaxReq

Users == {"None", "", "trader"}

\* symbols and periods requested while the whole server runs
ServerSymbols == { <<>>, <<"A">>, <<"A", ".", "N", "S">> }
ServerPeriods == {"1mo"}

\* symbols and periods requested of one handler on its own
ReqSymbols ==
    ServerSymbols \cup { <<"^", "N", "S", "E", "I">>, <<"A", ".", "B", "O">>,
                         <<"A", ".", "N", "S", "B">> }
Periods == {"1d", "1y", "1mo", "5d"}

BidRate == <<"bid1_rate", "bid2_rate", "bid3_rate", "bid4_rate", "bid5_rate">>
BidQty  == <<"bid1_qty", "bid2_qty", "bid3_qty", "bid4_qty", "bid5_qty">>
AskRate == <<"ask1_rate", "ask2_rate", "ask3_rate", "ask4_rate", "ask5_rate">>
AskQty  == <<"ask1_qty", "ask2_qty", "ask3_qty", "ask4_qty", "ask5_qty">>
Levels == DOMAIN BidRate
Range(f) == {f[i] : i \in DOMAIN f}
RateAttrs == Range(BidRate) \cup Range(AskRate)
QtyAttrs == Range(BidQty) \cup Range(AskQty)
StatAttrs == {"ltp", "change", "change_perc", "volume", "day_high", "day_low"}

\* a tick object carrying exactly the attributes in attrs, each non-zero
MkTick(attrs) ==
    [a \in attrs |-> IF a \in RateAttrs THEN 250 ELSE IF a \in QtyAttrs THEN 40 ELSE 9]

BookAttrs(B, A, mode) ==
    (IF mode \in {"both", "rate"}
     THEN {BidRate[i] : i \in B} \cup {AskRate[i] : i \in A} ELSE {})
    \cup
    (IF mode \in {"both", "qty"}
     THEN {BidQty[i] : i \in B} \cup {AskQty[i] : i \in A} ELSE {})

\* ticks with any subset of the bid levels and any subset of the ask levels
BookTicks ==
    { MkTick(BookAttrs(B, A, mode) \cup {"ltp"}) :
        B \in SUBSET Levels, A \in SUBSET Levels, mode \in {"both", "rate", "qty"} }

ServerTicks ==
    { MkTick({"ltp", "bid1_rate", "bid1_qty", "ask1_rate"}),
      MkTick(RateAttrs \cup QtyAttrs \cup StatAttrs) }

\* draws of random.uniform for the synthetic quote (price, change, percent)
QuoteSamples ==
    { [price |-> 100, change |-> -5, change_percent |-> -1],
      [price |-> 3000, change |-> 5, change_percent |-> 1] }

\* draws of random.random() (in hundredths) and random.uniform(1000, 10000)
MockSamples == { [r |-> 0, volume |-> 1000], [r |-> 99, volume |-> 9999] }

----------------------------------------------------------------------------
(* What an operation leaves behind *)

NoUpstream == [kind |-> "none"]

Op(by, w, symbol, period) == [by |-> by, worker |-> w, symbol |-> symbol, period |-> period]

\* a returned dict (body) or a returned list (items)
Returned(body) == [state |-> "returned", body |-> body, items |-> <<>>]
ReturnedList(items) == [state |-> "returned", body |-> EmptyDict, items |-> items]
Pending == [state |-> "pending", body |-> EmptyDict, items |-> <<>>]
\* an exception that leaves the handler and reaches the host
Unhandled == [state |-> "raised", body |-> EmptyDict, items |-> <<>>]

\* a call to the vendor; n is the port of a connection, the range in days of a
\* history request
VendorCall(api, symbol, resolution, n, user) ==
    [api |-> api, symbol |-> symbol, resolution |-> resolution, n |-> n, user |-> user]

Idle == [pc |-> "idle", symbol |-> <<>>, req_id |-> 0, sleeps |-> 0]

\* the effect of one operation on the bookkeeping variables
Finish(o, up, cs, r) ==
    /\ op' = o
    /\ upstream' = up
    /\ calls' = cs
    /\ resp' = r

----------------------------------------------------------------------------
(* Lifecycle hooks: src/main.py lines 36-59 *)

TD_PORT == 8086

startup_event ==
    /\ ~startupDone
    /\ startupDone' = TRUE
    /\ IF Truthy(TD_USER)
       THEN \E connected \in BOOLEAN :
              /\ td_app' = IF connected THEN "TD" ELSE td_app
              /\ session' = IF connected THEN "open" ELSE session
              /\ Finish(Op("startup_event", 0, <<>>, ""),
                        [kind |-> "TD", raised |-> ~connected],
                        {VendorCall("TD", <<>>, "", TD_PORT, TD_USER)},
                        Returned(EmptyDict))
       ELSE /\ UNCHANGED <<td_app, session>>
            /\ Finish(Op("startup_event", 0, <<>>, ""), NoUpstream, {}, Returned(EmptyDict))
    /\ UNCHANGED <<TD_USER, shutdownDone, live_data, workers, routerVars>>

shutdown_event ==
    /\ startupDone
    /\ ~shutdownDone
    /\ shutdownDone' = TRUE
    /\ IF Truthy(td_app)
       THEN \E raised \in BOOLEAN :
              /\ session' = IF raised THEN session ELSE "closed"
              /\ Finish(Op("shutdown_event", 0, <<>>, ""),
                        [kind |-> "disconnect", raised |-> raised],
                        {VendorCall("disconnect", <<>>, "", 0, "")},
                        Returned(EmptyDict))
       ELSE /\ UNCHANGED session
            /\ Finish(Op("shutdown_event", 0, <<>>, ""), NoUpstream, {}, Returned(EmptyDict))
    /\ UNCHANGED <<TD_USER, td_app, startupDone, live_data, workers, routerVars>>

\* the vendor's socket thread stores a tick under a subscription identifier
TickArrive ==
    /\ session = "open"
    /\ \E id \in ReqIds, tick \in ServerTicks :
         live_data' = (id :> tick) @@ live_data
    /\ UNCHANGED <<TD_USER, td_app, session, startupDone, shutdownDone,
                   workers, op, upstream, calls, resp, routerVars>>

----------------------------------------------------------------------------
(* /quote: src/main.py lines 89-160 *)

QuoteDisconnected(symbol) == [symbol |-> symbol, price |-> 0, status |-> "Disconnected"]
QuoteInvalid(symbol) == [symbol |-> symbol, price |-> 0, status |-> "Invalid Symbol"]
QuoteWaiting(symbol) == [symbol |-> symbol, price |-> 0, status |-> "Waiting for tick..."]
QuoteError(symbol) == [symbol |-> symbol, price |-> 0, error |-> "str(e)"]

OrderBook(tick) ==
    [bids |-> << [price |-> getattr(tick, "bid1_rate", 0), qty |-> getattr(tick, "bid1_qty", 0)],
                 [price |-> getattr(tick, "bid2_rate", 0), qty |-> getattr(tick, "bid2_qty", 0)],
                 [price |-> getattr(tick, "bid3_rate", 0), qty |-> getattr(tick, "bid3_qty", 0)],
                 [price |-> getattr(tick, "bid4_rate", 0), qty |-> getattr(tick, "bid4_qty", 0)],
                 [price |-> getattr(tick, "bid5_rate", 0), qty |-> getattr(tick, "bid5_qty", 0)] >>,
     asks |-> << [price |-> getattr(tick, "ask1_rate", 0), qty |-> getattr(tick, "ask1_qty", 0)],
                 [price |-> getattr(tick, "ask2_rate", 0), qty |-> getattr(tick, "ask2_qty", 0)],
                 [price |-> getattr(tick, "ask3_rate", 0), qty |-> getattr(tick, "ask3_qty", 0)],
                 [price |-> getattr(tick, "ask4_rate", 0), qty |-> getattr(tick, "ask4_qty", 0)],
                 [price |-> getattr(tick, "ask5_rate", 0), qty |-> getattr(tick, "ask5_qty", 0)] >>]

QuoteFromTick(symbol, tick) ==
    [symbol |-> symbol,
     price |-> getattr(tick, "ltp", 0),
     change |-> getattr(tick, "change", 0),
     change_percent |-> getattr(tick, "change_perc", 0),
     volume |-> getattr(tick, "volume", 0),
     high |-> getattr(tick, "day_high", 0),
     low |-> getattr(tick, "day_low", 0),
     orderbook |-> OrderBook(tick),
     currency |-> "INR",
     source |-> "TrueData"]

QuoteMock(symbol, s) ==
    [symbol |-> symbol,
     price |-> s.price,
     change |-> s.change,
     change_percent |-> s.change_percent,
     currency |-> "USD",
     source |-> "Mock (US)"]

\* what td_app.start_live_data([clean_sym]) and the tick cache gave the handler
QuoteUp(raised, ids, cached, tick) ==
    [kind |-> "live", raised |-> raised, ids |-> ids, cached |-> cached, tick |-> tick]

StartLiveOutcomes ==
    {[raised |-> TRUE, ids |-> <<>>], [raised |-> FALSE, ids |-> <<>>]}
    \cup {[raised |-> FALSE, ids |-> <<i>>] : i \in ReqIds}

\* get_quote reconnecting on its own when it finds no session
quote_td_app_reconnect(h) == "TD"

\* get_quote declares `global td_app` and only reads it
quote_td_app(h) == h

\* get_quote without its except clause
quote_no_except(symbol) == Unhandled

\* the except clause of get_quote
quote_on_exception(symbol) == Returned(QuoteError(symbol))

\* get_quote polling: it sleeps again while the tick is absent
after_sleep_poll(wk, present) == IF present THEN Idle ELSE [wk EXCEPT !.sleeps = 2]

\* the worker after time.sleep(0.2): the handler goes on to its single re-check
after_sleep(wk, present) == Idle

\* entry of get_quote up to its return or its time.sleep(0.2)
get_quote(w, symbols) ==
    /\ workers[w].pc = "idle"
    /\ td_app' = quote_td_app(td_app)
    /\ \E symbol \in symbols :
         LET o == Op("get_quote", w, symbol, "")
             call == VendorCall("start_live_data", get_clean_symbol(symbol), "", 0, "")
         IN
         IF is_indian_stock(symbol)
         THEN IF ~Truthy(td_app)
              THEN /\ Finish(o, NoUpstream, {}, Returned(QuoteDisconnected(symbol)))
                   /\ UNCHANGED workers
              ELSE \E out \in StartLiveOutcomes :
                     IF out.raised
                     THEN /\ Finish(o, QuoteUp(TRUE, <<>>, FALSE, EmptyDict), {call},
                                    quote_on_exception(symbol))
                          /\ UNCHANGED workers
                     ELSE IF out.ids = <<>>
                     THEN /\ Finish(o, QuoteUp(FALSE, <<>>, FALSE, EmptyDict), {call},
                                    Returned(QuoteInvalid(symbol)))
                          /\ UNCHANGED workers
                     ELSE LET req_id == out.ids[1] IN
                          IF req_id \notin DOMAIN live_data
                          THEN /\ Finish(o, QuoteUp(FALSE, out.ids, FALSE, EmptyDict), {call},
                                         Pending)
                               /\ workers' = [workers EXCEPT ![w] =
                                     [pc |-> "sleeping", symbol |-> symbol,
                                      req_id |-> req_id, sleeps |-> 1]]
                          ELSE /\ Finish(o, QuoteUp(FALSE, out.ids, TRUE, live_data[req_id]),
                                         {call},
                                         Returned(QuoteFromTick(symbol, live_data[req_id])))
                               /\ UNCHANGED workers
         ELSE \E s \in QuoteSamples :
                /\ Finish(o, NoUpstream, {}, Returned(QuoteMock(symbol, s)))
                /\ UNCHANGED workers
    /\ UNCHANGED <<TD_USER, session, startupDone, shutdownDone, live_data, routerVars>>

\* get_quote from the end of time.sleep(0.2) to its return
get_quote_wake(w) ==
    /\ workers[w].pc = "sleeping"
    /\ td_app' = quote_td_app(td_app)
    /\ LET wk == workers[w]
           present == wk.req_id \in DOMAIN live_data
           nxt == after_sleep(wk, present)
           o == Op("get_quote", w, wk.symbol, "")
       IN
       /\ workers' = [workers EXCEPT ![w] = nxt]
       /\ IF nxt.pc # "idle"
          THEN Finish(o, QuoteUp(FALSE, <<wk.req_id>>, FALSE, EmptyDict), {}, Pending)
          ELSE IF present
          THEN Finish(o, QuoteUp(FALSE, <<wk.req_id>>, TRUE, live_data[wk.req_id]), {},
                      Returned(QuoteFromTick(wk.symbol, live_data[wk.req_id])))
          ELSE Finish(o, QuoteUp(FALSE, <<wk.req_id>>, FALSE, EmptyDict), {},
                      Returned(QuoteWaiting(wk.symbol)))
    /\ UNCHANGED <<TD_USER, session, startupDone, shutdownDone, live_data, routerVars>>

----------------------------------------------------------------------------
(* /history: src/main.py lines 70-86 and 163-221 *)

MockLen == 30       \* range(30)
BasePrice == 15000  \* base_price=150, in hundredths

\* candles i..MockLen-1 of the random walk; price in hundredths, date as the
\* offset in days from now
RECURSIVE mock_walk(_, _, _)
mock_walk(i, prev, sample) ==
    IF i >= MockLen THEN <<>>
    ELSE LET price == (prev * (10000 + (sample.r - 50) * 3)) \div 10000
         IN  << [date |-> 0 - (MockLen - i),
                 open |-> (price * 99) \div 100,
                 high |-> (price * 101) \div 100,
                 low |-> (price * 98) \div 100,
                 close |-> price,
                 volume |-> sample.volume] >>
             \o mock_walk(i + 1, price, sample)

\* the series for each draw, from the default base price
MockSeries == [sample \in MockSamples |-> mock_walk(0, BasePrice, sample)]

generate_mock_history(sample) == MockSeries[sample]

\* period -> (date range in days, resolution)
period_range(period) ==
    IF period = "1d" THEN [days |-> 5, resolution |-> "15min"]
    ELSE IF period = "1y" THEN [days |-> 365, resolution |-> "EOD"]
    ELSE [days |-> 30, resolution |-> "EOD"]

\* a row of the payload: a JSON array (sized) or a scalar (len(row) raises)
FullRow == <<20240101, 10, 12, 9, 11, 500>>
RowLens == 0..Len(FullRow)
Rows == {[sized |-> TRUE, fields |-> SubSeq(FullRow, 1, n)] : n \in RowLens}
        \cup {[sized |-> FALSE, fields |-> <<>>]}

\* outcome of requests.get: raised (connection failure, timeout), or a response
\* with a status, whose body is invalid JSON, a JSON list or a JSON object
HistoryUp(raised, status, json, records, rows) ==
    [kind |-> "gethistory", raised |-> raised, status |-> status, json |-> json,
     records |-> records, rows |-> rows]

HistoryOutcomes ==
    {HistoryUp(TRUE, 0, "invalid", "missing", <<>>)}
    \cup {HistoryUp(FALSE, st, j, "missing", <<>>) :
            st \in {200, 500}, j \in {"invalid", "list", "dict"}}
    \cup {HistoryUp(FALSE, 200, "dict", "null", <<>>)}
    \cup {HistoryUp(FALSE, 200, "dict", "rows", rs) : rs \in SeqsUpTo(Rows, MaxRows)}

\* the vendor answers seen while the whole server runs: a failed request, an
\* error status, a payload of one complete row
ServerHistoryOutcomes ==
    { HistoryUp(TRUE, 0, "invalid", "missing", <<>>),
      HistoryUp(FALSE, 500, "dict", "missing", <<>>),
      HistoryUp(FALSE, 200, "dict", "rows", <<[sized |-> TRUE, fields |-> FullRow]>>) }

\* the loop over records (lines 203-214)
RECURSIVE chart_data(_)
chart_data(records) ==
    IF records = <<>> THEN <<>>
    ELSE LET row == Head(records).fields
         IN  (IF Len(row) >= 5
              THEN << [date |-> row[1], open |-> row[2], high |-> row[3],
                       low |-> row[4], close |-> row[5],
                       volume |-> IF Len(row) > 5 THEN row[6] ELSE 0] >>
              ELSE <<>>)
             \o chart_data(Tail(records))

\* response.json(), data.get("Records", []) or len(row) raises
history_parse_raises(out) ==
    \/ out.json \in {"invalid", "list"}
    \/ out.records = "null"
    \/ \E i \in DOMAIN out.rows : ~out.rows[i].sized

\* get_history without its except clause
history_no_except(sample) == Unhandled

\* the except clause of get_history
history_on_exception(sample) == ReturnedList(generate_mock_history(sample))

\* the else branch of `if response.status_code == 200`
history_on_status(sample) == ReturnedList(generate_mock_history(sample))

history_response(out, sample) ==
    IF out.raised THEN history_on_exception(sample)
    ELSE IF out.status = 200
         THEN IF history_parse_raises(out)
              THEN history_on_exception(sample)
              ELSE ReturnedList(chart_data(out.rows))
         ELSE history_on_status(sample)

get_history(symbols, periods, outcomes) ==
    \E symbol \in symbols, period \in periods, sample \in MockSamples :
      LET o == Op("get_history", 0, symbol, period)
          pr == period_range(period)
      IN
      /\ IF ~is_indian_stock(symbol)
         THEN Finish(o, NoUpstream, {}, ReturnedList(generate_mock_history(sample)))
         ELSE \E out \in outcomes :
                Finish(o, out,
                       {VendorCall("GET gethistory", get_clean_symbol(symbol),
                                   pr.resolution, pr.days, TD_USER)},
                       history_response(out, sample))
      /\ UNCHANGED <<TD_USER, td_app, session, startupDone, shutdownDone,
                     live_data, workers, routerVars>>

----------------------------------------------------------------------------
(* /fundamentals: src/main.py lines 225-289 *)

empty_data(symbol) ==
    [market_cap |-> 0,
     pe_ratio |-> 0,
     peg_ratio |-> 0,
     book_value |-> 0,
     dividend_yield |-> 0,
     eps |-> 0,
     profit_margin |-> 0,
     roe |-> 0,
     debt_to_equity |-> 0,
     shareholding |-> [promoters |-> 0, institutions |-> 0, public |-> 0],
     forecast |-> [recommendation |-> "WAITING",
                   targetMean |-> 0,
                   targetLow |-> 0,
                   targetHigh |-> 0],
     currency |-> IF is_indian_stock(symbol) THEN "INR" ELSE "USD"]

\* the record built from a 200 response (lines 261-279)
overlay(real_data) ==
    [market_cap |-> dict_get(real_data, "market_cap", 0),
     pe_ratio |-> dict_get(real_data, "pe", 0),
     peg_ratio |-> dict_get(real_data, "peg", 0),
     book_value |-> dict_get(real_data, "book_value", 0),
     dividend_yield |-> dict_get(real_data, "dividend_yield", 0),
     eps |-> dict_get(real_data, "eps", 0),
     profit_margin |-> dict_get(real_data, "profit_margin", 0),
     roe |-> dict_get(real_data, "roe", 0),
     debt_to_equity |-> dict_get(real_data, "debt_to_equity", 0),
     shareholding |-> dict_get(real_data, "shareholding", EmptyDict),
     forecast |-> [recommendation |-> dict_get(real_data, "recommendation", "N/A"),
                   targetMean |-> dict_get(real_data, "target_price", 0),
                   targetLow |-> dict_get(real_data, "target_low", 0),
                   targetHigh |-> dict_get(real_data, "target_high", 0)],
     currency |-> "INR"]

FundKeys ==
    {"market_cap", "pe", "peg", "book_value", "dividend_yield", "eps", "profit_margin",
     "roe", "debt_to_equity", "shareholding", "recommendation", "target_price",
     "target_low", "target_high"}

FundValue(k) ==
    IF k = "shareholding" THEN [promoters |-> 50, institutions |-> 30, public |-> 20]
    ELSE IF k = "recommendation" THEN "BUY"
    ELSE 7

\* outcome of requests.get on company_info, as for the history endpoint; data
\* is the JSON object of the body
FundUp(raised, status, json, data) ==
    [kind |-> "company_info", raised |-> raised, status |-> status, json |-> json,
     data |-> data]

FundPayloads ==
    { [k \in K |-> FundValue(k)] :
        K \in { S \in SUBSET FundKeys :
                  \/ Cardinality(S) <= MaxFundKeys
                  \/ Cardinality(FundKeys \ S) <= MaxFundKeys } }

FundOutcomes ==
    {FundUp(TRUE, 0, "invalid", EmptyDict)}
    \cup {FundUp(FALSE, st, j, EmptyDict) :
            st \in {200, 500}, j \in {"invalid", "list"}}
    \cup {FundUp(FALSE, st, "dict", d) : st \in {200, 500}, d \in FundPayloads}

ServerFundOutcomes ==
    { FundUp(TRUE, 0, "invalid", EmptyDict),
      FundUp(FALSE, 200, "dict", EmptyDict),
      FundUp(FALSE, 200, "dict", [k \in FundKeys |-> FundValue(k)]) }

\* response.json() or real_data.get raises
fund_parse_raises(out) == out.json \in {"invalid", "list"}

\* the except clause of get_fundamentals
fund_on_exception(symbol) == Returned(empty_data(symbol))

\* the else branch of `if response.status_code == 200`
fund_on_status(symbol) == Returned(empty_data(symbol))

fund_response(symbol, out) ==
    IF out.raised THEN fund_on_exception(symbol)
    ELSE IF out.status = 200
         THEN IF fund_parse_raises(out)
              THEN fund_on_exception(symbol)
              ELSE Returned(overlay(out.data))
         ELSE fund_on_status(symbol)

\* get_fundamentals calling the vendor whatever the routing decision
fund_calls_always(symbol, user) ==
    {VendorCall("GET company_info", get_clean_symbol(symbol), "", 0, user)}

\* the vendor calls get_fundamentals makes for a symbol
fund_calls(symbol, user) ==
    IF is_indian_stock(symbol)
    THEN {VendorCall("GET company_info", get_clean_symbol(symbol), "", 0, user)}
    ELSE {}

get_fundamentals(symbols, outcomes) ==
    \E symbol \in symbols :
      LET o == Op("get_fundamentals", 0, symbol, "") IN
      /\ IF is_indian_stock(symbol)
         THEN \E out \in outcomes :
                Finish(o, out, fund_calls(symbol, TD_USER), fund_response(symbol, out))
         ELSE Finish(o, NoUpstream, fund_calls(symbol, TD_USER), Returned(empty_data(symbol)))
      /\ UNCHANGED <<TD_USER, td_app, session, startupDone, shutdownDone,
                     live_data, workers, routerVars>>

----------------------------------------------------------------------------
(* /news: src/main.py lines 292-318 *)

NewsItem(title, subject, date, sentiment, link, publisher) ==
    [title |-> title, subject |-> subject, date |-> date, sentiment |-> sentiment,
     link |-> link, publisher |-> publisher]

news_items(clean_sym) ==
    << NewsItem("Strong Q3 Performance reported by", clean_sym, "2024-10-15", "Positive",
                "https://www.moneycontrol.com", "TrueData News"),
       NewsItem("Analyst Call scheduled for next Tuesday", <<>>, "2024-10-10", "Neutral",
                "https://www.bloomberg.com", "Bloomberg"),
       NewsItem("New product line launch expected for", clean_sym, "2024-10-05", "Positive",
                "https://economictimes.indiatimes.com", "Economic Times") >>

get_news(symbols) ==
    \E symbol \in symbols :
      /\ Finish(Op("get_news", 0, symbol, ""), NoUpstream, {},
                ReturnedList(news_items(get_clean_symbol(symbol))))
      /\ UNCHANGED <<TD_USER, td_app, session, startupDone, shutdownDone,
                     live_data, workers, routerVars>>

----------------------------------------------------------------------------
(* The server *)

RouterIdle ==
    /\ rSymbol = <<>>
    /\ rDecision = "MOCK"
    /\ rClean = <<>>
    /\ rDone = FALSE

Init ==
    /\ RouterIdle
    /\ TD_USER \in Users
    /\ td_app = "None"
    /\ session = "none"
    /\ startupDone = FALSE
    /\ shutdownDone = FALSE
    /\ live_data = EmptyDict
    /\ workers = [w \in Workers |-> Idle]
    /\ op = Op("import", 0, <<>>, "")
    /\ upstream = NoUpstream
    /\ calls = {}
    /\ resp = Returned(EmptyDict)

Next ==
    \/ startup_event
    \/ shutdown_event
    \/ TickArrive
    \/ \E w \in Workers : get_quote(w, ServerSymbols)
    \/ \E w \in Workers : get_quote_wake(w)
    \/ get_history(ServerSymbols, ServerPeriods, ServerHistoryOutcomes)
    \/ get_fundamentals(ServerSymbols, ServerFundOutcomes)
    \/ get_news(ServerSymbols)

Spec == Init /\ [][Next]_vars

\* a thread asleep in time.sleep(0.2) is scheduled again
FairSpec == Spec /\ \A w \in Workers : WF_vars(get_quote_wake(w))

----------------------------------------------------------------------------
(* One evaluation of the router on an arbitrary symbol *)

InitRouter ==
    /\ rSymbol \in RouterSymbols
    /\ rDecision = "MOCK"
    /\ rClean = <<>>
    /\ rDone = FALSE
    /\ TD_USER = "None"
    /\ td_app = "None"
    /\ session = "none"
    /\ startupDone = FALSE
    /\ shutdownDone = FALSE
    /\ live_data = EmptyDict
    /\ workers = [w \in Workers |-> Idle]
    /\ op = Op("import", 0, <<>>, "")
    /\ upstream = NoUpstream
    /\ calls = {}
    /\ resp = Returned(EmptyDict)

Route ==
    /\ ~rDone
    /\ rDecision' = Decision(rSymbol)
    /\ rClean' = get_clean_symbol(rSymbol)
    /\ rDone' = TRUE
    /\ UNCHANGED <<rSymbol, serverVars>>

NextRouter == Route

SpecRouter == InitRouter /\ [][NextRouter]_vars

----------------------------------------------------------------------------
(* The first get_quote calls after startup, against a connected session     *)
(* whose cache holds any tick                                              *)

\* no request has been served since startup
FirstRequest == op.by = "startup_event"

InitBook ==
    /\ RouterIdle
    /\ TD_USER = "trader"
    /\ td_app = "TD"
    /\ session = "open"
    /\ startupDone = TRUE
    /\ shutdownDone = FALSE
    /\ live_data \in {EmptyDict} \cup {(id :> tick) : id \in ReqIds, tick \in BookTicks}
    /\ workers = [w \in Workers |-> Idle]
    /\ op = Op("startup_event", 0, <<>>, "")
    /\ upstream = [kind |-> "TD", raised |-> FALSE]
    /\ calls = {VendorCall("TD", <<>>, "", TD_PORT, TD_USER)}
    /\ resp = Returned(EmptyDict)

NextBook ==
    \/ \E w \in Workers : FirstRequest /\ get_quote(w, ReqSymbols)
    \/ \E w \in Workers : get_quote_wake(w)

SpecBook == InitBook /\ [][NextBook]_vars

----------------------------------------------------------------------------
(* One REST handler on its own: the first request after startup, against   *)
(* any vendor answer                                                       *)

InitRest ==
    /\ RouterIdle
    /\ TD_USER \in Users
    /\ td_app \in {"None"} \cup (IF Truthy(TD_USER) THEN {"TD"} ELSE {})
    /\ session = IF td_app = "TD" THEN "open" ELSE "none"
    /\ startupDone = TRUE
    /\ shutdownDone = FALSE
    /\ live_data = EmptyDict
    /\ workers = [w \in Workers |-> Idle]
    /\ op = Op("startup_event", 0, <<>>, "")
    /\ upstream = IF Truthy(TD_USER) THEN [kind |-> "TD", raised |-> td_app # "TD"] ELSE NoUpstream
    /\ calls = IF Truthy(TD_USER) THEN {VendorCall("TD", <<>>, "", TD_PORT, TD_USER)} ELSE {}
    /\ resp = Returned(EmptyDict)

NextHistory == FirstRequest /\ get_history(ReqSymbols, Periods, HistoryOutcomes)

SpecHistory == InitRest /\ [][NextHistory]_vars

NextFund == FirstRequest /\ get_fundamentals(ReqSymbols, FundOutcomes)

SpecFund == InitRest /\ [][NextFund]_vars

----------------------------------------------------------------------------
(* Properties *)

Suffixes == {NS, BO}

\* symbol is some prefix followed by exactly the suffix
HasTrailing(symbol, suffix) ==
    \E k \in 0..Len(symbol) : symbol = SubSeq(symbol, 1, k) \o suffix

IsAlias(symbol) == \E key \in DOMAIN INDEX_MAP : key = symbol

VendorRouted(symbol) == IsAlias(symbol) \/ \E suffix \in Suffixes : HasTrailing(symbol, suffix)

\* C1: for every symbol, the empty one included, the router answers, and its
\* answer is VENDOR exactly when the symbol ends with .NS or .BO or is a key
\* of INDEX_MAP, and MOCK otherwise.
C1_VendorIffSuffixOrAlias ==
    rDone =>
      /\ rDecision \in {"VENDOR", "MOCK"}
      /\ (rDecision = "VENDOR") <=> VendorRouted(rSymbol)

C1_Witness ==
    /\ rDone
    /\ rSymbol = <<"A", ".", "B", "O">>
    /\ rDecision = "VENDOR"

\* C2: the canonical symbol is the alias value for an alias; otherwise the
\* symbol with one exactly matching trailing suffix removed, and the symbol
\* itself when it ends with no suffix, wherever else .NS or .BO occurs in it.
C2_OnlyTrailingSuffixRemoved ==
    rDone =>
      IF IsAlias(rSymbol) THEN rClean = INDEX_MAP[rSymbol]
      ELSE IF \E suffix \in Suffixes : HasTrailing(rSymbol, suffix)
           THEN rClean = SubSeq(rSymbol, 1, Len(rSymbol) - 3)
           ELSE rClean = rSymbol

GotQuote == op.by = "get_quote" /\ resp.state # "pending"

\* the symbol is empty, or the vendor has no subscription for it
UnknownOrEmpty ==
    \/ op.symbol = <<>>
    \/ upstream.kind = "live" /\ ~upstream.raised /\ upstream.ids = <<>>

\* C3 as stated: get_quote with an unknown or empty symbol never raises and
\* returns an object with price 0 and a status field.
C3_UnknownOrEmptyPriceZero ==
    (GotQuote /\ UnknownOrEmpty) =>
      /\ resp.state = "returned"
      /\ {"price", "status"} \subseteq DOMAIN resp.body
      /\ resp.body.price = 0

\* C3 amended: get_quote never raises and returns an object with the symbol
\* and a price, whatever the state of the session.  For a MOCK-routed symbol
\* (the empty one included) it is the synthetic quote, price within
\* [100, 3000] and no status field; for a VENDOR-routed symbol that gets no
\* tick the price is 0 and the object carries a status field, or an error
\* field when the vendor call raised.
C3_QuoteAlwaysAnswers ==
    GotQuote =>
      /\ resp.state = "returned"
      /\ {"symbol", "price"} \subseteq DOMAIN resp.body
      /\ resp.body.symbol = op.symbol
      /\ ~VendorRouted(op.symbol) =>
           /\ resp.body.price \in 100..3000
           /\ "status" \notin DOMAIN resp.body
           /\ resp.body.source = "Mock (US)"
      /\ (VendorRouted(op.symbol) /\ "orderbook" \notin DOMAIN resp.body) =>
           /\ resp.body.price = 0
           /\ IF upstream.kind = "live" /\ upstream.raised
              THEN "error" \in DOMAIN resp.body /\ "status" \notin DOMAIN resp.body
              ELSE "status" \in DOMAIN resp.body /\ "error" \notin DOMAIN resp.body

C3_Witness ==
    /\ GotQuote
    /\ upstream.kind = "live"
    /\ upstream.raised
    /\ session = "closed"
    /\ resp.body.price = 0

HasFiveLevels(book) == Len(book.bids) = 5 /\ Len(book.asks) = 5

\* the value a level takes from the tick: the attribute if the tick has it, else 0
FromTick(tick, name) == IF name \in DOMAIN tick THEN tick[name] ELSE 0

C5_NoVendorCallWithoutCredentials ==
    (TD_USER = "None" /\ startupDone) =>
      /\ td_app = "None"
      /\ resp.state # "raised"
      /\ calls = {}

\* the request failed, the status is not 200, or the payload does not parse
HistoryFailed(up) ==
    \/ up.raised
    \/ up.status # 200
    \/ up.json # "dict"
    \/ up.records = "null"
    \/ \E i \in DOMAIN up.rows : ~up.rows[i].sized

\* a series of the mock generator: 30 daily candles up to yesterday
IsMockSeries(items) ==
    /\ Len(items) = 30
    /\ \A i \in 1..30 :
         /\ items[i].date = i - 31
         /\ items[i].low <= items[i].open
         /\ items[i].open <= items[i].close
         /\ items[i].close <= items[i].high
         /\ items[i].volume \in 1000..10000

\* C6: for a VENDOR-routed symbol get_history always returns: the mock series
\* of 30 candles when the request fails, the status is not 200 or the payload
\* does not parse; otherwise one candle for each row of at least 5 fields, in
\* order, the shorter rows being dropped.
C6_HistoryDegradesToMock ==
    (op.by = "get_history" /\ VendorRouted(op.symbol)) =>
      /\ resp.state = "returned"
      /\ IF HistoryFailed(upstream)
         THEN IsMockSeries(resp.items)
         ELSE LET kept == SelectSeq(upstream.rows, LAMBDA row : Len(row.fields) >= 5)
              IN  /\ Len(resp.items) = Len(kept)
                  /\ \A j \in 1..Len(kept) :
                       /\ resp.items[j].date = kept[j].fields[1]
                       /\ resp.items[j].close = kept[j].fields[5]

\* a payload whose first row is complete and whose second row has no length:
\* the candle already built is given up for the mock series
C6_Witness ==
    /\ op.by = "get_history"
    /\ VendorRouted(op.symbol)
    /\ ~upstream.raised
    /\ upstream.status = 200
    /\ Len(upstream.rows) = 2
    /\ upstream.rows[1].sized
    /\ Len(upstream.rows[1].fields) = 6
    /\ ~upstream.rows[2].sized
    /\ Len(resp.items) = 30

GotFundamentals == op.by = "get_fundamentals"

FundFailed(up) == up.raised \/ up.status # 200 \/ up.json # "dict"

FundShape ==
    {"market_cap", "pe_ratio", "peg_ratio", "book_value", "dividend_yield", "eps",
     "profit_margin", "roe", "debt_to_equity", "shareholding", "forecast", "currency"}

RatioFields ==
    {"market_cap", "pe_ratio", "peg_ratio", "book_value", "dividend_yield", "eps",
     "profit_margin", "roe", "debt_to_equity"}

\* C7: when the company-info call fails (exception, status other than 200,
\* body that does not parse) get_fundamentals returns the default record:
\* every number 0, recommendation WAITING, currency INR; a MOCK-routed symbol
\* gets the default record with currency USD and no vendor call is made.
C7_FailureGivesDefaultRecord ==
    (GotFundamentals /\ (~VendorRouted(op.symbol) \/ FundFailed(upstream))) =>
      /\ resp.state = "returned"
      /\ DOMAIN resp.body = FundShape
      /\ \A f \in RatioFields : resp.body[f] = 0
      /\ resp.body.shareholding = [promoters |-> 0, institutions |-> 0, public |-> 0]
      /\ resp.body.forecast = [recommendation |-> "WAITING", targetMean |-> 0,
                               targetLow |-> 0, targetHigh |-> 0]
      /\ resp.body.currency = IF VendorRouted(op.symbol) THEN "INR" ELSE "USD"
      /\ ~VendorRouted(op.symbol) => calls = {} /\ upstream = NoUpstream

\* a 500 response that carries a full payload: none of it is surfaced
C7_Witness ==
    /\ GotFundamentals
    /\ VendorRouted(op.symbol)
    /\ ~upstream.raised
    /\ upstream.status = 500
    /\ DOMAIN upstream.data = FundKeys
    /\ resp.body.market_cap = 0
    /\ resp.body.currency = "INR"

\* response key -> field of the returned record
RatioKey ==
    [market_cap |-> "market_cap", pe_ratio |-> "pe", peg_ratio |-> "peg",
     book_value |-> "book_value", dividend_yield |-> "dividend_yield", eps |-> "eps",
     profit_margin |-> "profit_margin", roe |-> "roe", debt_to_equity |-> "debt_to_equity"]

\* C8: on a 200 response for a VENDOR-routed symbol every field missing from
\* the response keeps its value of the default record, and the record has the
\* full shape: all ratios, the three shareholding parts, the recommendation
\* and the three targets.
C8_OverlayKeepsDefaults ==
    (GotFundamentals /\ VendorRouted(op.symbol) /\ ~FundFailed(upstream)) =>
      /\ resp.state = "returned"
      /\ DOMAIN resp.body = FundShape
      /\ DOMAIN resp.body.shareholding = {"promoters", "institutions", "public"}
      /\ DOMAIN resp.body.forecast =
           {"recommendation", "targetMean", "targetLow", "targetHigh"}
      /\ \A f \in RatioFields :
           RatioKey[f] \notin DOMAIN upstream.data => resp.body[f] = 0
      /\ "shareholding" \notin DOMAIN upstream.data =>
           resp.body.shareholding = [promoters |-> 0, institutions |-> 0, public |-> 0]
      /\ "recommendation" \notin DOMAIN upstream.data =>
           resp.body.forecast.recommendation = "WAITING"
      /\ "target_price" \notin DOMAIN upstream.data => resp.body.forecast.targetMean = 0
      /\ "target_low" \notin DOMAIN upstream.data => resp.body.forecast.targetLow = 0
      /\ "target_high" \notin DOMAIN upstream.data => resp.body.forecast.targetHigh = 0

Sleeping(w) == workers[w].pc = "sleeping"

\* the step in which worker w leaves time.sleep(0.2)
Wakes(w) == Sleeping(w) /\ workers'[w] # workers[w]

\* C9: a get_quote call that found no tick sleeps once; when it wakes it looks
\* at the cache once and returns, the tick's quote if the tick is there, else
\* price 0 with status "Waiting for tick..."; it never sleeps a second time
\* and every sleeping call returns (no call stays asleep for ever).
C9_SleepsOnceThenAnswers ==
    /\ [](\A w \in Workers : workers[w].sleeps <= 1)
    /\ [][\A w \in Workers :
            Wakes(w) =>
              /\ workers'[w].pc = "idle"
              /\ op' = Op("get_quote", w, workers[w].symbol, "")
              /\ resp'.state = "returned"
              /\ IF workers[w].req_id \in DOMAIN live_data
                 THEN resp'.body = QuoteFromTick(workers[w].symbol,
                                                 live_data[workers[w].req_id])
                 ELSE /\ resp'.body.price = 0
                      /\ resp'.body.status = "Waiting for tick..."]_vars
    /\ \A w \in Workers : []<>(~Sleeping(w))

C9_Witness ==
    /\ op.by = "get_quote"
    /\ resp.state = "returned"
    /\ "status" \in DOMAIN resp.body
    /\ resp.body.status = "Waiting for tick..."
    /\ upstream.ids # <<>>

\* C10: only the startup hook sets td_app or connects, only the shutdown hook
\* disconnects, and it does so on an established handle; the handlers leave
\* td_app as it is, whatever they are interleaved with.
C10_HandlersOnlyReadSession ==
    [][/\ td_app' # td_app => (td_app = "None" /\ op'.by = "startup_event" /\ ~startupDone)
       /\ \A c \in calls' :
            /\ c.api = "TD" => op'.by = "startup_event"
            /\ c.api = "disconnect" =>
                 (op'.by = "shutdown_event" /\ td_app = "TD" /\ session # "none")
       /\ op'.by \in {"get_quote", "get_history", "get_fundamentals", "get_news"} =>
            (td_app' = td_app /\ session' = session)]_vars

\* the shutdown hook has closed the session while a get_quote call is asleep
C10_Witness ==
    /\ shutdownDone
    /\ td_app = "TD"
    /\ session = "closed"
    /\ \E w \in Workers : Sleeping(w)

====
